---- MODULE Spec2Model ----
(***************************************************************************)
(* Preprocessing of PJSIP2/pj/config_site.h.                               *)
(*                                                                         *)
(* The header is a list of preprocessor directives.  The state is the      *)
(* macro table of the translation unit: whatever the headers seen before   *)
(* config_site.h defined (the "base" layer), then the directives of the    *)
(* header itself (the "override" layer), then the directives of            *)
(* <pj/config_site_sample.h>, which the header includes on its last line   *)
(* (the "sample" layer).  The sample header is not part of the repository, *)
(* so its directives are inputs.                                           *)
(***************************************************************************)
EXTENDS Naturals, Sequences, FiniteSets

\* ---------------------------------------------------------------- bounds
\* how many macros, besides the two endianness macros and the include
\* guard, the headers seen before config_site.h have defined
MaxBaseExtra == 1
\* how many directives of the sample header are applied
MaxSampleLen == 2

\* ---------------------------------------------------------------- names
Undefined == "<undefined>"
NoLayer == "none"
Layers == {"base", "override", "sample"}

LE == "PJ_IS_LITTLE_ENDIAN"
BE == "PJ_IS_BIG_ENDIAN"
GUARD == "__PJ_CONFIG_SITE_H__"
\* a macro that config_site.h never mentions
BASE_ONLY == "PJ_HAS_FLOATING_POINT"
PJ_M_ARM_FLAG == "PJ_M_ARM"

\* config_site.h with line 15 defining PJ_IS_BIG_ENDIAN as 1
ProgramBigEndianOn ==
  << [op |-> "ifndef",  flag |-> GUARD, value |-> "", line |-> 8],
     [op |-> "define",  flag |-> GUARD, value |-> "", line |-> 9],
     [op |-> "undef",   flag |-> LE, value |-> "", line |-> 12],
     [op |-> "undef",   flag |-> BE, value |-> "", line |-> 13],
     [op |-> "define",  flag |-> LE, value |-> "1", line |-> 14],
     [op |-> "define",  flag |-> BE, value |-> "1", line |-> 15],
     [op |-> "define",  flag |-> "PJ_CONFIG_IPHONE", value |-> "1", line |-> 18],
     [op |-> "define",  flag |-> "PJMEDIA_HAS_VIDEO", value |-> "1", line |-> 21],
     [op |-> "define",  flag |-> "PJMEDIA_HAS_VID_TOOLBOX_CODEC", value |-> "1", line |-> 22],
     [op |-> "define",  flag |-> "PJ_HAS_SSL_SOCK", value |-> "1", line |-> 25],
     [op |-> "define",  flag |-> "PJ_SSL_SOCK_IMP", value |-> "PJ_SSL_SOCK_IMP_APPLE", line |-> 26],
     [op |-> "define",  flag |-> "PJ_OS_HAS_CHECK_STACK", value |-> "0", line |-> 29],
     [op |-> "define",  flag |-> "PJSIP_DONT_SWITCH_TO_TCP", value |-> "1", line |-> 30],
     [op |-> "define",  flag |-> "PJ_M_ARM", value |-> "1", line |-> 33],
     [op |-> "include", flag |-> "", value |-> "", line |-> 36],
     [op |-> "endif",   flag |-> "", value |-> "", line |-> 38] >>

\* the directives of config_site.h, in file order
Program ==
  << [op |-> "ifndef",  flag |-> GUARD, value |-> "", line |-> 8],
     [op |-> "define",  flag |-> GUARD, value |-> "", line |-> 9],
     [op |-> "undef",   flag |-> LE, value |-> "", line |-> 12],
     [op |-> "undef",   flag |-> BE, value |-> "", line |-> 13],
     [op |-> "define",  flag |-> LE, value |-> "1", line |-> 14],
     [op |-> "define",  flag |-> BE, value |-> "0", line |-> 15],
     [op |-> "define",  flag |-> "PJ_CONFIG_IPHONE", value |-> "1", line |-> 18],
     [op |-> "define",  flag |-> "PJMEDIA_HAS_VIDEO", value |-> "1", line |-> 21],
     [op |-> "define",  flag |-> "PJMEDIA_HAS_VID_TOOLBOX_CODEC", value |-> "1", line |-> 22],
     [op |-> "define",  flag |-> "PJ_HAS_SSL_SOCK", value |-> "1", line |-> 25],
     [op |-> "define",  flag |-> "PJ_SSL_SOCK_IMP", value |-> "PJ_SSL_SOCK_IMP_APPLE", line |-> 26],
     [op |-> "define",  flag |-> "PJ_OS_HAS_CHECK_STACK", value |-> "0", line |-> 29],
     [op |-> "define",  flag |-> "PJSIP_DONT_SWITCH_TO_TCP", value |-> "1", line |-> 30],
     [op |-> "define",  flag |-> "PJ_M_ARM", value |-> "1", line |-> 33],
     [op |-> "include", flag |-> "", value |-> "", line |-> 36],
     [op |-> "endif",   flag |-> "", value |-> "", line |-> 38] >>

Done == Len(Program) + 1

\* the macros config_site.h defines itself
OverrideFlags == {Program[i].flag : i \in {j \in 1..Len(Program) : Program[j].op = "define"}}

Flags == OverrideFlags \cup {BASE_ONLY}

\* ---------------------------------------------------------------- inputs
\* replacement lists the earlier headers and the sample header may use
NumVals == {"0", "1"}
\* macros the earlier headers may have defined besides LE, BE and the guard:
\* one that config_site.h defines as 1, one it defines as 0, one it defines
\* as a symbol, and one it never mentions
BaseExtraFlags == {PJ_M_ARM_FLAG, "PJ_OS_HAS_CHECK_STACK", "PJ_SSL_SOCK_IMP", BASE_ONLY}
\* macros the directives of the sample header are drawn over
SampleFlags == {LE, BE, "PJ_OS_HAS_CHECK_STACK", BASE_ONLY}

VARIABLES pc, phase, val, src, assigned, undefBy, ubs, diag, status, failedOn, failedVal,
          sampleCount, everBoth

vars == <<pc, phase, val, src, assigned, undefBy, ubs, diag, status, failedOn, failedVal,
          sampleCount, everBoth>>

\* ---------------------------------------------------------------- helpers
\* #if X: an undefined identifier evaluates to 0, a numeral to its value
Truthy(v) == v # Undefined /\ v # "0" /\ v # ""

BothTruthy(table) == Truthy(table[LE]) /\ Truthy(table[BE])

\* the layer whose directives are being processed
CurLayer == IF phase = "sample" THEN "sample" ELSE "override"

\* an #undef that leaves the macro in the table
UndefineNoop(table, f) == table

\* an #undef that empties the table
UndefineAll(table, f) == [g \in DOMAIN table |-> Undefined]

\* #undef: remove the macro from the table (no effect, and no diagnostic,
\* when it is not defined)
Undefine(table, f) == [table EXCEPT ![f] = Undefined]

\* a #define that keeps an existing definition
RedefineKeepFirst(table, f, v) ==
  IF table[f] = Undefined THEN [table EXCEPT ![f] = v] ELSE table

\* #define: enter the macro with its new replacement list
Redefine(table, f, v) == [table EXCEPT ![f] = v]

\* a #define that is refused as soon as it makes both endianness macros truthy
DiagnoseExclusive(table, f, v) ==
  IF BothTruthy([table EXCEPT ![f] = v]) THEN {"error"}
  ELSE IF table[f] = Undefined \/ table[f] = v THEN {"silent"}
  ELSE {"warning", "error"}

\* what a #define of f as v does to a table that may already hold f:
\* a new macro or an identical redefinition is accepted silently; a
\* redefinition with a different replacement list must be diagnosed, which
\* a build reports as a warning (the new definition takes effect) or as an
\* error (translation stops)
Diagnose(table, f, v) ==
  IF table[f] = Undefined \/ table[f] = v THEN {"silent"} ELSE {"warning", "error"}

\* ---------------------------------------------------------------- state
Init ==
  /\ pc = 1
  /\ phase = "site"
  /\ \E S \in SUBSET BaseExtraFlags :
       /\ Cardinality(S) <= MaxBaseExtra
       /\ \E ev \in [S -> NumVals], le \in NumVals \cup {Undefined},
             be \in NumVals \cup {Undefined}, g \in {Undefined, ""} :
            val = [f \in Flags |->
                     IF f = LE THEN le
                     ELSE IF f = BE THEN be
                     ELSE IF f = GUARD THEN g
                     ELSE IF f \in S THEN ev[f] ELSE Undefined]
  /\ src = [f \in Flags |-> IF val[f] = Undefined THEN NoLayer ELSE "base"]
  /\ assigned = [l \in Layers |->
                   [f \in Flags |-> IF l = "base" THEN val[f] ELSE Undefined]]
  /\ undefBy = [f \in Flags |-> NoLayer]
  /\ ubs = [f \in Flags |-> FALSE]
  /\ diag = {}
  /\ status = "ok"
  /\ failedOn = ""
  /\ failedVal = ""
  /\ sampleCount = 0
  /\ everBoth = BothTruthy(val)

\* ---------------------------------------------------------------- directives
\* #undef f, issued by the layer being processed
ApplyUndef(f) ==
  /\ val' = Undefine(val, f)
  /\ src' = [g \in Flags |-> IF val'[g] = Undefined THEN NoLayer ELSE src[g]]
  /\ undefBy' = [undefBy EXCEPT ![f] = CurLayer]
  /\ ubs' = [ubs EXCEPT ![f] = FALSE]
  /\ diag' = diag \ {f}
  /\ everBoth' = (everBoth \/ BothTruthy(val'))
  /\ UNCHANGED <<assigned, status, failedOn, failedVal>>

\* #define f v, issued by the layer being processed, with outcome out
ApplyDefine(f, v, out) ==
  IF out = "error"
  THEN /\ status' = "RedefinitionError"
       /\ failedOn' = f
       /\ failedVal' = v
       /\ UNCHANGED <<val, src, assigned, undefBy, ubs, diag, everBoth>>
  ELSE /\ val' = Redefine(val, f, v)
       /\ src' = [g \in Flags |-> IF val'[g] # val[g] \/ g = f THEN CurLayer ELSE src[g]]
       /\ assigned' = [assigned EXCEPT ![CurLayer][f] = v]
       /\ ubs' = [ubs EXCEPT ![f] = (undefBy[f] = CurLayer)]
       /\ undefBy' = [undefBy EXCEPT ![f] = NoLayer]
       /\ diag' = IF out = "warning" THEN diag \cup {f} ELSE diag \ {f}
       /\ everBoth' = (everBoth \/ BothTruthy(val'))
       /\ UNCHANGED <<status, failedOn, failedVal>>

Running == status = "ok" /\ pc < Done

\* line 8: #ifndef __PJ_CONFIG_SITE_H__ ... line 38: #endif
Ifndef ==
  /\ Running /\ phase = "site" /\ Program[pc].op = "ifndef"
  /\ pc' = IF val[Program[pc].flag] = Undefined THEN pc + 1 ELSE Done
  /\ UNCHANGED <<phase, val, src, assigned, undefBy, ubs, diag, status, failedOn, failedVal,
                 sampleCount, everBoth>>

\* lines 12-13: #undef
Undef ==
  /\ Running /\ phase = "site" /\ Program[pc].op = "undef"
  /\ ApplyUndef(Program[pc].flag)
  /\ pc' = pc + 1
  /\ UNCHANGED <<phase, sampleCount>>

\* lines 9, 14-33: #define
Define ==
  /\ Running /\ phase = "site" /\ Program[pc].op = "define"
  /\ \E out \in Diagnose(val, Program[pc].flag, Program[pc].value) :
       /\ ApplyDefine(Program[pc].flag, Program[pc].value, out)
       /\ pc' = IF out = "error" THEN pc ELSE pc + 1
  /\ UNCHANGED <<phase, sampleCount>>

\* line 36: #include <pj/config_site_sample.h>, entering the sample header
Include ==
  /\ Running /\ phase = "site" /\ Program[pc].op = "include"
  /\ phase' = "sample"
  /\ UNCHANGED <<pc, val, src, assigned, undefBy, ubs, diag, status, failedOn, failedVal,
                 sampleCount, everBoth>>

\* a directive of the sample header:  #define f v
SampleDefine ==
  /\ Running /\ phase = "sample" /\ sampleCount < MaxSampleLen
  /\ \E f \in SampleFlags, v \in NumVals :
       \E out \in Diagnose(val, f, v) : ApplyDefine(f, v, out)
  /\ sampleCount' = sampleCount + 1
  /\ UNCHANGED <<pc, phase>>

\* directives of the sample header:  #undef f  then  #define f v
SampleUndefDefine ==
  /\ Running /\ phase = "sample" /\ sampleCount < MaxSampleLen
  /\ \E f \in SampleFlags, v \in NumVals :
       \E out \in Diagnose(Undefine(val, f), f, v) :
         IF out = "error"
         THEN /\ status' = "RedefinitionError"
              /\ failedOn' = f
              /\ failedVal' = v
              /\ val' = Undefine(val, f)
              /\ src' = [g \in Flags |-> IF val'[g] = Undefined THEN NoLayer ELSE src[g]]
              /\ undefBy' = [undefBy EXCEPT ![f] = "sample"]
              /\ ubs' = [ubs EXCEPT ![f] = FALSE]
              /\ diag' = diag \ {f}
              /\ UNCHANGED <<assigned, everBoth>>
         ELSE /\ val' = Redefine(Undefine(val, f), f, v)
              /\ src' = [g \in Flags |-> IF val'[g] # val[g] \/ g = f THEN "sample" ELSE src[g]]
              /\ assigned' = [assigned EXCEPT !["sample"][f] = v]
              /\ ubs' = [ubs EXCEPT ![f] = TRUE]
              /\ undefBy' = [undefBy EXCEPT ![f] = NoLayer]
              /\ diag' = IF out = "warning" THEN diag \cup {f} ELSE diag \ {f}
              /\ everBoth' = (everBoth \/ BothTruthy(val'))
              /\ UNCHANGED <<status, failedOn, failedVal>>
  /\ sampleCount' = sampleCount + 1
  /\ UNCHANGED <<pc, phase>>

\* directives of the sample header:  #ifndef f  #define f v  #endif
SampleIfndefDefine ==
  /\ Running /\ phase = "sample" /\ sampleCount < MaxSampleLen
  /\ \E f \in SampleFlags, v \in NumVals :
       IF val[f] = Undefined
       THEN ApplyDefine(f, v, "silent")
       ELSE UNCHANGED <<val, src, assigned, undefBy, ubs, diag, status, failedOn, failedVal,
                        everBoth>>
  /\ sampleCount' = sampleCount + 1
  /\ UNCHANGED <<pc, phase>>

\* end of the sample header: back to config_site.h after line 36
SampleEnd ==
  /\ Running /\ phase = "sample"
  /\ phase' = "site"
  /\ pc' = pc + 1
  /\ UNCHANGED <<val, src, assigned, undefBy, ubs, diag, status, failedOn, failedVal,
                 sampleCount, everBoth>>

\* line 38: #endif
Endif ==
  /\ Running /\ phase = "site" /\ Program[pc].op = "endif"
  /\ pc' = pc + 1
  /\ UNCHANGED <<phase, val, src, assigned, undefBy, ubs, diag, status, failedOn, failedVal,
                 sampleCount, everBoth>>

Next ==
  \/ Ifndef
  \/ Undef
  \/ Define
  \/ Include
  \/ SampleDefine
  \/ SampleUndefDefine
  \/ SampleIfndefDefine
  \/ SampleEnd
  \/ Endif

Spec == Init /\ [][Next]_vars

TypeOK ==
  /\ pc \in 1..Done
  /\ phase \in {"site", "sample"}
  /\ val \in [Flags -> NumVals \cup {Undefined, "", "PJ_SSL_SOCK_IMP_APPLE"}]
  /\ src \in [Flags -> Layers \cup {NoLayer}]
  /\ status \in {"ok", "RedefinitionError"}
  /\ sampleCount \in 0..MaxSampleLen

\* ---------------------------------------------------------------- properties
\* preprocessing of the header ran to its last line without an error
AtEnd == pc = Done /\ status = "ok"

\* layer l gave f a value
Assigns(l, f) == assigned[l][f] # Undefined

\* position of a layer in the order of application
Order(l) == IF l = "base" THEN 1 ELSE IF l = "override" THEN 2 ELSE 3

\* the layer applied last among those that gave f a value
LastAssigner(f) ==
  CHOOSE l \in Layers :
    /\ Assigns(l, f)
    /\ \A m \in Layers : Assigns(m, f) => Order(m) <= Order(l)

\* C1 (as amended): when preprocessing completes, a macro that two or more
\* layers define has the value, and the source, of the layer applied last
\* among them; the order of application is base, config_site.h, sample header.
LastAppliedLayerWins ==
  AtEnd =>
    \A f \in Flags :
      Cardinality({l \in Layers : Assigns(l, f)}) >= 2 =>
        /\ val[f] = assigned[LastAssigner(f)][f]
        /\ src[f] = LastAssigner(f)

\* C1 witness: base and config_site.h define the same macro differently and
\* the completed table holds the value of config_site.h
WitnessLastAppliedLayerWins ==
  /\ AtEnd
  /\ \E f \in Flags :
       /\ Assigns("base", f) /\ Assigns("override", f)
       /\ ~Assigns("sample", f)
       /\ assigned["base"][f] # assigned["override"][f]
       /\ val[f] = assigned["override"][f]
       /\ src[f] = "override"

\* C1 (as stated): the override layer has the highest priority, so every
\* macro config_site.h defines ends with the value config_site.h gave it,
\* whatever the base and the sample header define.
OverrideBeatsBaseAndSample ==
  AtEnd =>
    \A f \in Flags :
      (Assigns("override", f) /\ (Assigns("base", f) \/ Assigns("sample", f))) =>
        val[f] = assigned["override"][f]

\* translation was stopped by a #define
Stopped == status # "ok"

\* C2: a macro whose current definition was made by a layer that #undef'd it
\* first holds exactly that layer's value and source, and the definition was
\* not diagnosed as a redefinition of the earlier value; a #define that
\* follows the layer's own #undef of the macro never stops translation.
UndefBeforeSetExact ==
  /\ \A f \in Flags :
       ubs[f] =>
         /\ src[f] \in Layers \ {"base"}
         /\ val[f] = assigned[src[f]][f]
         /\ f \notin diag
         /\ undefBy[f] = NoLayer
  /\ Stopped => undefBy[failedOn] # CurLayer

\* C2 witness: the base defined PJ_IS_LITTLE_ENDIAN as 0, config_site.h
\* #undef'd it and defined it as 1
WitnessUndefBeforeSet ==
  /\ ubs[LE]
  /\ assigned["base"][LE] = "0"
  /\ val[LE] = "1"
  /\ src[LE] = "override"

\* C3 (as stated, for the runs that applied config_site.h): preprocessing
\* that ends with both endianness macros truthy fails.
ConflictRejected ==
  (pc = Done /\ src[GUARD] = "override" /\ BothTruthy(val)) => status # "ok"

\* lines 12-15 of config_site.h have been applied and the sample header has
\* not defined an endianness macro
OverrideEndianApplied ==
  /\ Assigns("override", BE)
  /\ ~Assigns("sample", LE) /\ ~Assigns("sample", BE)

\* C8: whatever the base defined, after lines 12-15 PJ_IS_LITTLE_ENDIAN is
\* truthy, PJ_IS_BIG_ENDIAN is falsy, both have config_site.h as their
\* source, neither definition was diagnosed, and the pair is not both truthy.
ForcedEndianness ==
  OverrideEndianApplied =>
    /\ val[LE] = "1" /\ Truthy(val[LE])
    /\ val[BE] = "0" /\ ~Truthy(val[BE])
    /\ src[LE] = "override" /\ src[BE] = "override"
    /\ ~BothTruthy(val)
    /\ LE \notin diag /\ BE \notin diag

\* C8 witness: the base had both endianness macros truthy and the header
\* has reached its #include line
WitnessForcedEndianness ==
  /\ assigned["base"][LE] = "1" /\ assigned["base"][BE] = "1"
  /\ pc < Done /\ Program[pc].op = "include" /\ phase = "site"
  /\ val[LE] = "1" /\ val[BE] = "0"

\* C9: translation stops only at a #define that meets a different existing
\* definition; it never stops because both endianness macros are, or were
\* at some point, truthy.
NoFailureFromIntermediateConflict ==
  Stopped =>
    /\ val[failedOn] # Undefined
    /\ val[failedOn] # failedVal

\* C9 witness: config_site.h left LE truthy, the sample header then made BE
\* truthy (both truthy) and afterwards LE falsy; preprocessing completed
WitnessIntermediateConflict ==
  /\ AtEnd
  /\ everBoth /\ ~BothTruthy(val)
  /\ assigned["override"][LE] = "1"
  /\ val[BE] = "1" /\ src[BE] = "sample"
  /\ val[LE] = "0" /\ src[LE] = "sample"

\* C10: a macro that neither config_site.h nor the sample header has
\* touched keeps the base's value and source; every macro in the table has
\* a source layer, and that layer gave it the value it holds.
UnrelatedFlagsPreserved ==
  /\ \A f \in Flags :
       (~Assigns("override", f) /\ ~Assigns("sample", f) /\ undefBy[f] = NoLayer) =>
         /\ val[f] = assigned["base"][f]
         /\ src[f] = IF Assigns("base", f) THEN "base" ELSE NoLayer
  /\ \A f \in Flags :
       val[f] # Undefined => (src[f] \in Layers /\ assigned[src[f]][f] = val[f])
  /\ \A f \in Flags \ OverrideFlags :
       Assigns("override", f) = FALSE

\* C10 witness: the base defined a macro config_site.h never mentions and
\* an endianness macro; after the whole header the first is the base's, the
\* second config_site.h's
WitnessUnrelatedFlagsPreserved ==
  /\ AtEnd
  /\ val[BASE_ONLY] = "1" /\ src[BASE_ONLY] = "base"
  /\ ~Assigns("sample", BASE_ONLY)
  /\ src[PJ_M_ARM_FLAG] = "override"
  /\ src[LE] = "override"

====
